---- MODULE Spec2Model ----
(***************************************************************************)
(* Model of src/elysia/src/index.ts: an Elysia HTTP gateway with four     *)
(* static GET routes, an onRequest hook, two onAfterHandle hooks, an       *)
(* onError hook, a graceful-shutdown routine and two process-level error   *)
(* handlers.                                                               *)
(*                                                                         *)
(* The hooks are translated from the source.  The order in which the       *)
(* framework runs them is the Elysia life cycle: onRequest, route match,   *)
(* handler, the onAfterHandle hooks in registration order, response; a     *)
(* condition raised by route matching or by the handler goes to onError    *)
(* instead, and the onAfterHandle hooks are then skipped.                  *)
(***************************************************************************)
EXTENDS Integers, Sequences, FiniteSets, TLC

\* ---------------------------------------------------------------- bounds
MaxRequests == 2
MaxTime == 2
MaxSignals == 2
MaxProcEvents == 1

\* ---------------------------------------------------------------- inputs
Requests == 1..MaxRequests
Methods == {"GET", "POST"}
Paths == {"/", "/health", "/ready", "/metrics", "/nope"}
Environments == {"development", "production"}
FaultCodes == {"VALIDATION", "INTERNAL_SERVER_ERROR", "UNKNOWN"}
Messages == {"boom", "secret"}
Signals == {"SIGTERM", "SIGINT"}

BootTime == 1
Running == -1
NoFault == [code |-> "NONE", message |-> ""]
NoBody == [kind |-> "none"]
NoResponse == [status |-> 0, headers |-> <<>>, body |-> NoBody]

VARIABLES
  config,       \* the config object (line 4)
  now,          \* Date.now()
  uuids,        \* number of identifiers crypto.randomUUID() has handed out
  request,      \* per request: position in the life cycle, method, url, _startTime
  set,          \* per request: the context's set.status and set.headers
  raised,       \* per request: the condition handed to onError (code, message)
  body,         \* per request: the value the handler or onError returned
  response,     \* per request: the response sent
  entered,      \* per request: the time and identifier created at its entry
  log,          \* the lines written to stdout/stderr, in order
  listening,    \* the server accepts connections
  calls,        \* the shutdown() invocations: signal and state of their app.stop()
  microtasks,   \* settled app.stop() promises whose continuation has not run yet
  exitCode,     \* Running, or the code process.exit was called with
  exitBy,       \* what called process.exit
  procEvents,   \* number of unhandledRejection / uncaughtException events so far
  overlapped    \* a termination signal arrived while an earlier drain was pending

vars == <<config, now, uuids, request, set, raised, body, response, entered, log,
          listening, calls, microtasks, exitCode, exitBy, procEvents, overlapped>>

reqVars == <<request, set, raised, body, response, entered>>
procVars == <<listening, calls, microtasks, exitCode, exitBy, procEvents, overlapped>>

\* ---------------------------------------------------------------- logger
\* One line of output, stamped with the time it is written.  req is the request
\* whose hook wrote the line, 0 for lines that belong to no request.
LogLine(level, message, req, method, url, statusCode, duration, error, code, signal) ==
  [level |-> level, timestamp |-> now, message |-> message, req |-> req, method |-> method,
   url |-> url, statusCode |-> statusCode, duration |-> duration,
   error |-> error, code |-> code, signal |-> signal]

\* logger.info(message, meta)
info(message, req, method, url, statusCode, duration, signal) ==
  LogLine("info", message, req, method, url, statusCode, duration, "", "", signal)

\* logger.error(message, error, meta): the line carries error.message
error(message, err, req, method, url, code) ==
  LogLine("error", message, req, method, url, 0, -1, err, code, "")

\* ---------------------------------------------------------------- headers
SecurityHeaderNames ==
  {"X-Content-Type-Options", "X-Frame-Options", "X-XSS-Protection",
   "Referrer-Policy", "Permissions-Policy"}

HSTS == "Strict-Transport-Security"

\* set.headers after the first onAfterHandle hook has run on headers h.
WithSecurityHeaders(h, env) ==
  LET fixed == ("X-Content-Type-Options" :> "nosniff")
            @@ ("X-Frame-Options" :> "DENY")
            @@ ("X-XSS-Protection" :> "1; mode=block")
            @@ ("Referrer-Policy" :> "strict-origin-when-cross-origin")
            @@ ("Permissions-Policy" :> "geolocation=(), microphone=(), camera=()")
      hsts == IF env = "production"
                THEN (HSTS :> "max-age=31536000; includeSubDomains")
                ELSE <<>>
  IN hsts @@ fixed @@ h

\* ---------------------------------------------------------------- routes
\* The route table with /ready registered under POST.
RoutesReadyAsPost ==
  {<<"GET", "/health">>, <<"POST", "/ready">>, <<"GET", "/metrics">>, <<"GET", "/">>}

\* The route table: the four .get registrations (lines 129-151).
Routes ==
  {<<"GET", "/health">>, <<"GET", "/ready">>, <<"GET", "/metrics">>, <<"GET", "/">>}

\* The value the route handler of path returns at time t.
Handler(path, env, t) ==
  CASE path = "/health" ->
         [kind |-> "json", status |-> "healthy", timestamp |-> t,
          uptime |-> t - BootTime, environment |-> env]
    [] path = "/ready" ->
         [kind |-> "json", status |-> "ready", timestamp |-> t]
    [] path = "/metrics" ->
         [kind |-> "json", timestamp |-> t, uptime |-> t - BootTime,
          memory |-> "memoryUsage", nodeVersion |-> "version"]
    [] OTHER -> [kind |-> "html"]

\* ---------------------------------------------------------------- onError
\* onError without its VALIDATION branch.
ErrorStatusWithoutValidation(code) ==
  IF code = "NOT_FOUND" THEN 404 ELSE 500

\* The status onError sets for a condition with this code.
ErrorStatus(code) ==
  IF code = "NOT_FOUND" THEN 404
  ELSE IF code = "VALIDATION" THEN 400
  ELSE 500

\* onError whose INTERNAL_SERVER_ERROR branch shows the message in every
\* environment.
ErrorEnvelopeLeaking(code, message, env, t) ==
  IF code = "NOT_FOUND" THEN
    [error |-> "Not Found", message |-> "The requested resource was not found",
     timestamp |-> t]
  ELSE IF code = "VALIDATION" THEN
    [error |-> "Validation Error", message |-> message, timestamp |-> t]
  ELSE IF code = "INTERNAL_SERVER_ERROR" THEN
    [error |-> "Internal Server Error", message |-> message, timestamp |-> t]
  ELSE
    [error |-> "Error",
     message |-> IF env = "production"
                   THEN "An error occurred processing your request" ELSE message,
     timestamp |-> t]

\* The body onError returns for a condition (code, message) at time t.
ErrorEnvelope(code, message, env, t) ==
  IF code = "NOT_FOUND" THEN
    [error |-> "Not Found", message |-> "The requested resource was not found",
     timestamp |-> t]
  ELSE IF code = "VALIDATION" THEN
    [error |-> "Validation Error", message |-> message, timestamp |-> t]
  ELSE IF code = "INTERNAL_SERVER_ERROR" THEN
    [error |-> "Internal Server Error",
     message |-> IF env = "production" THEN "An unexpected error occurred" ELSE message,
     timestamp |-> t]
  ELSE
    [error |-> "Error",
     message |-> IF env = "production"
                   THEN "An error occurred processing your request" ELSE message,
     timestamp |-> t]

\* ---------------------------------------------------------------- state
Alive == exitCode = Running

IdleRequest == [pc |-> "idle", method |-> "", url |-> "", startTime |-> 0]

Init ==
  /\ config \in [nodeEnv : Environments, logLevel : {"info"}]
  /\ now = BootTime
  /\ uuids = 0
  /\ request = [r \in Requests |-> IdleRequest]
  /\ set = [r \in Requests |-> [status |-> 200, headers |-> <<>>]]
  /\ raised = [r \in Requests |-> NoFault]
  /\ body = [r \in Requests |-> NoBody]
  /\ response = [r \in Requests |-> NoResponse]
  /\ entered = [r \in Requests |-> [time |-> 0, id |-> 0]]
  /\ log = <<info("Server started", 0, "", "", 0, -1, "")>>
  /\ listening = TRUE
  /\ calls = <<>>
  /\ microtasks = <<>>
  /\ exitCode = Running
  /\ exitBy = "none"
  /\ procEvents = 0
  /\ overlapped = FALSE

\* Date.now() moves on.
Tick ==
  /\ Alive
  /\ now < MaxTime
  /\ now' = now + 1
  /\ UNCHANGED <<config, uuids, log, reqVars, procVars>>

\* ---------------------------------------------------------------- requests
\* onRequest hook (lines 56-68) for a new request r with method m and path p.
OnRequest(r, m, p) ==
  /\ Alive
  /\ listening
  /\ request[r].pc = "idle"
  /\ \A q \in Requests : q < r => request[q].pc # "idle"
  /\ LET startTime == now
         id == uuids + 1
     IN /\ uuids' = id
        /\ set' = [set EXCEPT ![r].headers = ("X-Request-ID" :> id) @@ @]
        /\ log' = Append(log, info("Incoming request", r, m, p, 0, -1, ""))
        /\ request' = [request EXCEPT ![r] =
                         [pc |-> "received", method |-> m, url |-> p,
                          startTime |-> startTime]]
        /\ entered' = [entered EXCEPT ![r] = [time |-> startTime, id |-> id]]
  /\ UNCHANGED <<config, now, raised, body, response, procVars>>

\* Route match and handler (lines 129-151).  An unmatched method/path raises
\* NOT_FOUND; a matched handler returns its value or raises condition f.
Dispatch(r, f) ==
  /\ Alive
  /\ request[r].pc = "received"
  /\ IF <<request[r].method, request[r].url>> \notin Routes
       THEN /\ f = NoFault
            /\ raised' = [raised EXCEPT ![r] = [code |-> "NOT_FOUND", message |-> "NOT_FOUND"]]
            /\ request' = [request EXCEPT ![r].pc = "error"]
            /\ body' = body
       ELSE IF f = NoFault
         THEN /\ body' = [body EXCEPT ![r] = Handler(request[r].url, config.nodeEnv, now)]
              /\ request' = [request EXCEPT ![r].pc = "afterHandle1"]
              /\ raised' = raised
         ELSE /\ raised' = [raised EXCEPT ![r] = f]
              /\ request' = [request EXCEPT ![r].pc = "error"]
              /\ body' = body
  /\ UNCHANGED <<config, now, uuids, set, response, entered, log, procVars>>

\* First onAfterHandle hook (lines 43-53).
SecurityHeaders(r) ==
  /\ Alive
  /\ request[r].pc = "afterHandle1"
  /\ set' = [set EXCEPT ![r].headers = WithSecurityHeaders(@, config.nodeEnv)]
  /\ request' = [request EXCEPT ![r].pc = "afterHandle2"]
  /\ UNCHANGED <<config, now, uuids, raised, body, response, entered, log, procVars>>

\* The start time of the request that entered last, as a variable shared by
\* all requests would hold it.
StartTimeOfLatest(r) ==
  LET arrived == {q \in Requests : request[q].pc # "idle"}
  IN request[CHOOSE q \in arrived : \A o \in arrived : o <= q].startTime

\* (request as any)._startTime as the second onAfterHandle hook reads it.
StartTimeOf(r) == request[r].startTime

\* Date.now() - (_startTime || Date.now())
Duration(r) == now - (IF StartTimeOf(r) # 0 THEN StartTimeOf(r) ELSE now)

\* Second onAfterHandle hook (lines 71-79).
ResponseLogging(r) ==
  /\ Alive
  /\ request[r].pc = "afterHandle2"
  /\ log' = Append(log, info("Request completed", r, request[r].method,
                             request[r].url, set[r].status, Duration(r), ""))
  /\ request' = [request EXCEPT ![r].pc = "respond"]
  /\ UNCHANGED <<config, now, uuids, set, raised, body, response, entered, procVars>>

\* onError hook (lines 82-126).
OnError(r) ==
  /\ Alive
  /\ request[r].pc = "error"
  /\ log' = Append(log, error("Request error", raised[r].message, r,
                              request[r].method, request[r].url, raised[r].code))
  /\ set' = [set EXCEPT ![r].status = ErrorStatus(raised[r].code)]
  /\ body' = [body EXCEPT ![r] =
                ErrorEnvelope(raised[r].code, raised[r].message, config.nodeEnv, now)]
  /\ request' = [request EXCEPT ![r].pc = "respond"]
  /\ UNCHANGED <<config, now, uuids, raised, response, entered, procVars>>

\* The framework builds the response from set and the returned value.
SendResponse(r) ==
  /\ Alive
  /\ request[r].pc = "respond"
  /\ response' = [response EXCEPT ![r] =
                    [status |-> set[r].status, headers |-> set[r].headers,
                     body |-> body[r]]]
  /\ request' = [request EXCEPT ![r].pc = "done"]
  /\ UNCHANGED <<config, now, uuids, set, raised, body, entered, log, procVars>>

InFlight == {r \in Requests : request[r].pc \notin {"idle", "done"}}

\* ---------------------------------------------------------------- shutdown
Awaiting == {i \in 1..Len(calls) : calls[i].state = "awaiting"}

\* shutdown(signal) that does not wait for app.stop().
ShutdownWithoutAwait(signal) ==
  /\ Alive
  /\ Len(calls) < MaxSignals
  /\ log' = log \o <<info("Shutdown signal received", 0, "", "", 0, -1, signal),
                      info("Server stopped gracefully", 0, "", "", 0, -1, "")>>
  /\ listening' = FALSE
  /\ calls' = Append(calls, [signal |-> signal, state |-> "awaiting"])
  /\ overlapped' = (overlapped \/ Awaiting # {})
  /\ exitCode' = 0
  /\ exitBy' = "shutdown"
  /\ UNCHANGED <<config, now, uuids, reqVars, microtasks, procEvents>>

\* shutdown(signal) up to its await (lines 380-384): the line is logged and
\* app.stop() is called, which stops the listener and returns a promise.
Shutdown(signal) ==
  /\ Alive
  /\ Len(calls) < MaxSignals
  /\ log' = Append(log, info("Shutdown signal received", 0, "", "", 0, -1, signal))
  /\ listening' = FALSE
  /\ calls' = Append(calls, [signal |-> signal, state |-> "awaiting"])
  /\ overlapped' = (overlapped \/ Awaiting # {})
  /\ UNCHANGED <<config, now, uuids, reqVars, microtasks, exitCode, exitBy, procEvents>>

\* The promise of app.stop() settles (line 384).  It resolves once no request
\* is in flight; it may reject at any time.  The continuation of the awaiting
\* shutdown() is queued as a microtask.
StopSettles(i, outcome) ==
  /\ Alive
  /\ i \in Awaiting
  /\ outcome = "resolved" => InFlight = {}
  /\ calls' = [calls EXCEPT ![i].state = outcome]
  /\ microtasks' = Append(microtasks, i)
  /\ UNCHANGED <<config, now, uuids, reqVars, log, listening, exitCode, exitBy,
                 procEvents, overlapped>>

\* A catch branch that exits with code 0.
ShutdownExitCodeAlwaysZero(outcome) == 0

\* shutdown() without its process.exit calls.
ShutdownExitCodeNoExit(outcome) == Running

\* The code shutdown() passes to process.exit after its await (lines 386, 389).
ShutdownExitCode(outcome) == IF outcome = "resolved" THEN 0 ELSE 1

\* The line shutdown() logs after its await (lines 385, 388).
ShutdownLogLine(outcome) ==
  IF outcome = "resolved"
    THEN info("Server stopped gracefully", 0, "", "", 0, -1, "")
    ELSE error("Error during shutdown", "stop failed", 0, "", "", "")

\* The rest of shutdown() after the await: try branch or catch branch
\* (lines 385-389).
ShutdownResumes ==
  /\ Alive
  /\ microtasks # <<>>
  /\ LET i == Head(microtasks)
     IN /\ log' = Append(log, ShutdownLogLine(calls[i].state))
        /\ exitCode' = ShutdownExitCode(calls[i].state)
        /\ exitBy' = "shutdown"
        /\ calls' = [calls EXCEPT ![i].state = @ \o "-exited"]
  /\ microtasks' = Tail(microtasks)
  /\ UNCHANGED <<config, now, uuids, reqVars, listening, procEvents, overlapped>>

\* ---------------------------------------------------------------- process
\* An unhandledRejection handler that ends the process.
UnhandledRejectionExits(reason) ==
  /\ Alive
  /\ procEvents < MaxProcEvents
  /\ log' = Append(log, error("Unhandled Rejection", reason, 0, "", "", ""))
  /\ exitCode' = 1
  /\ exitBy' = "unhandledRejection"
  /\ procEvents' = procEvents + 1
  /\ UNCHANGED <<config, now, uuids, reqVars, listening, calls, microtasks, overlapped>>

\* process.on("unhandledRejection") (lines 397-401).
UnhandledRejection(reason) ==
  /\ Alive
  /\ procEvents < MaxProcEvents
  /\ log' = Append(log, error("Unhandled Rejection", reason, 0, "", "", ""))
  /\ procEvents' = procEvents + 1
  /\ UNCHANGED <<config, now, uuids, reqVars, listening, calls, microtasks,
                 exitCode, exitBy, overlapped>>

\* process.on("uncaughtException") (lines 403-406).
UncaughtException(message) ==
  /\ Alive
  /\ procEvents < MaxProcEvents
  /\ log' = Append(log, error("Uncaught Exception", message, 0, "", "", ""))
  /\ exitCode' = 1
  /\ exitBy' = "uncaughtException"
  /\ procEvents' = procEvents + 1
  /\ UNCHANGED <<config, now, uuids, reqVars, listening, calls, microtasks, overlapped>>

\* ---------------------------------------------------------------- specifications
Faults == {NoFault} \cup [code : FaultCodes, message : Messages]

\* The complete program.  Requests overlap; their inputs come from one
\* matched and one unmatched route and one fault.
SomePaths == {"/health", "/nope"}
SomeFaults == {NoFault, [code |-> "INTERNAL_SERVER_ERROR", message |-> "boom"]}

Next ==
  \/ Tick
  \/ \E r \in Requests, p \in SomePaths : OnRequest(r, "GET", p)
  \/ \E r \in Requests, f \in SomeFaults : Dispatch(r, f)
  \/ \E r \in Requests : SecurityHeaders(r)
  \/ \E r \in Requests : ResponseLogging(r)
  \/ \E r \in Requests : OnError(r)
  \/ \E r \in Requests : SendResponse(r)
  \/ \E s \in Signals : Shutdown(s)
  \/ \E i \in 1..MaxSignals, o \in {"resolved", "rejected"} : StopSettles(i, o)
  \/ ShutdownResumes
  \/ \E m \in Messages : UnhandledRejection(m)
  \/ \E m \in Messages : UncaughtException(m)

Spec == Init /\ [][Next]_vars

\* The request pipeline alone, one request at a time, over every method,
\* path and fault, with the clock standing still.
NextRoutes ==
  \/ \E r \in Requests, m \in Methods, p \in Paths : InFlight = {} /\ OnRequest(r, m, p)
  \/ \E r \in Requests, f \in Faults : Dispatch(r, f)
  \/ \E r \in Requests : SecurityHeaders(r)
  \/ \E r \in Requests : ResponseLogging(r)
  \/ \E r \in Requests : OnError(r)
  \/ \E r \in Requests : SendResponse(r)

SpecRoutes == Init /\ [][NextRoutes]_vars

\* The request pipeline with handlers that raise nothing: the only condition
\* is the NOT_FOUND of route matching.  One request at a time, over every
\* method and path, with the clock running.
NextPlain ==
  \/ Tick
  \/ \E r \in Requests, m \in Methods, p \in Paths : InFlight = {} /\ OnRequest(r, m, p)
  \/ \E r \in Requests : Dispatch(r, NoFault)
  \/ \E r \in Requests : SecurityHeaders(r)
  \/ \E r \in Requests : ResponseLogging(r)
  \/ \E r \in Requests : OnError(r)
  \/ \E r \in Requests : SendResponse(r)

SpecPlain == Init /\ [][NextPlain]_vars

\* Overlapping requests and the clock, without the process-level events.
NextConcurrent ==
  \/ Tick
  \/ \E r \in Requests, p \in SomePaths : OnRequest(r, "GET", p)
  \/ \E r \in Requests, f \in SomeFaults : Dispatch(r, f)
  \/ \E r \in Requests : SecurityHeaders(r)
  \/ \E r \in Requests : ResponseLogging(r)
  \/ \E r \in Requests : OnError(r)
  \/ \E r \in Requests : SendResponse(r)

SpecConcurrent == Init /\ [][NextConcurrent]_vars

\* Shutdown and the process-level handlers, with requests to one route, one at
\* a time, and the clock standing still.
NextProcess ==
  \/ \E r \in Requests : InFlight = {} /\ OnRequest(r, "GET", "/health")
  \/ \E r \in Requests : Dispatch(r, NoFault)
  \/ \E r \in Requests : SecurityHeaders(r)
  \/ \E r \in Requests : ResponseLogging(r)
  \/ \E r \in Requests : SendResponse(r)
  \/ \E s \in Signals : Shutdown(s)
  \/ \E i \in 1..MaxSignals, o \in {"resolved", "rejected"} : StopSettles(i, o)
  \/ ShutdownResumes
  \/ UnhandledRejection("boom")
  \/ UncaughtException("boom")

SpecProcess == Init /\ [][NextProcess]_vars

\* Shutdown with requests in flight, one at a time.  The event loop runs every queued
\* continuation, the synchronous handler and hooks of a request run to their
\* end, and app.stop() resolves once the server has drained; nothing obliges
\* the client of a request in flight to take its response.
NextShutdown ==
  \/ \E r \in Requests : InFlight = {} /\ OnRequest(r, "GET", "/health")
  \/ \E r \in Requests : Dispatch(r, NoFault)
  \/ \E r \in Requests : SecurityHeaders(r)
  \/ \E r \in Requests : ResponseLogging(r)
  \/ \E r \in Requests : SendResponse(r)
  \/ \E s \in Signals : Shutdown(s)
  \/ \E i \in 1..MaxSignals, o \in {"resolved", "rejected"} : StopSettles(i, o)
  \/ ShutdownResumes

FairShutdown ==
  /\ Init /\ [][NextShutdown]_vars
  /\ WF_vars(\E i \in 1..MaxSignals : StopSettles(i, "resolved"))
  /\ WF_vars(ShutdownResumes)
  /\ \A r \in Requests :
       /\ WF_vars(Dispatch(r, NoFault))
       /\ WF_vars(SecurityHeaders(r))
       /\ WF_vars(ResponseLogging(r))
\* ---------------------------------------------------------------- properties
Done(r) == request[r].pc = "done"

LinesOf(r, message) ==
  {k \in 1..Len(log) : log[k].req = r /\ log[k].message = message}

Method(r) == request[r].method
Url(r) == request[r].url

\* C1: every response sent, from a route handler or from the error mapper,
\* carries the five fixed security headers, and carries
\* Strict-Transport-Security exactly when the environment is production.
C1_SecurityHeadersOnEveryResponse ==
  \A r \in Requests :
    Done(r) =>
      /\ SecurityHeaderNames \subseteq DOMAIN response[r].headers
      /\ (HSTS \in DOMAIN response[r].headers) <=> (config.nodeEnv = "production")

\* C2: every request, on the success path and on the error path, has exactly
\* one "Incoming request" line, written before the handler is dispatched, and
\* exactly one "Request completed" line, written after the status is set, with
\* a non-negative duration.
C2_OneIncomingOneCompleted ==
  \A r \in Requests :
    /\ request[r].pc # "idle" => Cardinality(LinesOf(r, "Incoming request")) = 1
    /\ request[r].pc \in {"idle", "received"} => LinesOf(r, "Request completed") = {}
    /\ Done(r) =>
         /\ Cardinality(LinesOf(r, "Request completed")) = 1
         /\ \A k \in LinesOf(r, "Request completed") :
              /\ log[k].duration >= 0
              /\ log[k].statusCode = response[r].status

\* C3: the response status is 200 exactly for GET on /, /health, /ready and
\* /metrics (when the handler raises nothing); every other method/path pair,
\* a non-GET method on one of the four paths included, gets status 404 and the
\* "Not Found" envelope.
C3_RouteDispatch ==
  \A r \in Requests :
    Done(r) =>
      LET routed == Method(r) = "GET" /\ Url(r) \in {"/", "/health", "/ready", "/metrics"}
      IN /\ (response[r].status = 200) <=> (routed /\ raised[r] = NoFault)
         /\ ~routed =>
              /\ response[r].status = 404
              /\ DOMAIN response[r].body = {"error", "message", "timestamp"}
              /\ response[r].body.error = "Not Found"
              /\ response[r].body.message = "The requested resource was not found"

C3_Witness ==
  \E r, q \in Requests :
    /\ Done(r) /\ Method(r) = "POST" /\ Url(r) = "/ready" /\ response[r].status = 404
    /\ Done(q) /\ Method(q) = "GET" /\ Url(q) = "/ready" /\ response[q].status = 200

\* C4: every raised condition is turned by the error mapper into exactly one
\* envelope, by priority: not-found 404 "Not Found", validation 400
\* "Validation Error", internal fault 500 "Internal Server Error", anything
\* else 500 "Error"; and one error-level line carries the request's method and
\* url and the condition's message.
C4_ErrorMapping ==
  \A r \in Requests :
    (Done(r) /\ raised[r] # NoFault) =>
      LET code == raised[r].code
          expected ==
            IF code = "NOT_FOUND" THEN <<404, "Not Found">>
            ELSE IF code = "VALIDATION" THEN <<400, "Validation Error">>
            ELSE IF code = "INTERNAL_SERVER_ERROR" THEN <<500, "Internal Server Error">>
            ELSE <<500, "Error">>
          errors == {k \in 1..Len(log) : log[k].req = r /\ log[k].level = "error"}
      IN /\ response[r].status = expected[1]
         /\ DOMAIN response[r].body = {"error", "message", "timestamp"}
         /\ response[r].body.error = expected[2]
         /\ Cardinality(errors) = 1
         /\ \A k \in errors :
              /\ log[k].method = Method(r)
              /\ log[k].url = Url(r)
              /\ log[k].error = raised[r].message

C4_Witness ==
  \E r, q \in Requests :
    /\ Done(r) /\ raised[r].code = "VALIDATION" /\ response[r].status = 400
    /\ Done(q) /\ raised[q].code = "UNKNOWN" /\ response[q].body.error = "Error"

\* C5: in production the message of a 500 response is the same for any two
\* faults on the same error path ("An unexpected error occurred" on the
\* internal-error path) while the error line of the log carries each fault's
\* own message; outside production the 500 message is the fault's own; a 400
\* shows the fault's message in both modes.
C5_ProductionHidesFault ==
  /\ \A r \in Requests :
       (Done(r) /\ raised[r] # NoFault) =>
         /\ \E k \in 1..Len(log) :
              log[k].req = r /\ log[k].level = "error" /\ log[k].error = raised[r].message
         /\ response[r].status = 400 => response[r].body.message = raised[r].message
         /\ (response[r].status = 500 /\ config.nodeEnv # "production") =>
              response[r].body.message = raised[r].message
         /\ (raised[r].code = "INTERNAL_SERVER_ERROR" /\ config.nodeEnv = "production") =>
              response[r].body.message = "An unexpected error occurred"
  /\ \A r, q \in Requests :
       ( /\ Done(r) /\ Done(q) /\ config.nodeEnv = "production"
         /\ response[r].status = 500 /\ response[q].status = 500
         /\ raised[r].code = raised[q].code ) =>
         response[r].body.message = response[q].body.message

C5_Witness ==
  \E r, q \in Requests :
    /\ config.nodeEnv = "production"
    /\ Done(r) /\ Done(q)
    /\ raised[r].code = "INTERNAL_SERVER_ERROR" /\ raised[q].code = "INTERNAL_SERVER_ERROR"
    /\ raised[r].message # raised[q].message

\* C6: the exit with code 0 happens only after the listener was stopped and
\* app.stop() has completed, and "Server stopped gracefully" is logged only
\* after the stop has completed (and after the signal was logged).
C6_StopThenExitZero ==
  /\ exitCode = 0 =>
       /\ exitBy = "shutdown"
       /\ ~listening
       /\ \E i \in 1..Len(calls) : calls[i].state = "resolved-exited"
  /\ \A k \in 1..Len(log) :
       log[k].message = "Server stopped gracefully" =>
         /\ \E i \in 1..Len(calls) : calls[i].state = "resolved-exited"
         /\ \E j \in 1..(k - 1) : log[j].message = "Shutdown signal received"

C6_Witness ==
  /\ exitCode = 0
  /\ Len(calls) = 1
  /\ calls[1].signal = "SIGTERM"
  /\ \A r \in Requests : request[r].pc = "idle"
  /\ log[Len(log)].message = "Server stopped gracefully"

StopFailed(i) == calls[i].state \in {"rejected", "rejected-exited"}

\* C7 as stated: once a second termination signal has arrived during a drain,
\* or a drain has failed, a shutdown never ends in exit code 0: it ends in an
\* error-level line followed by a non-zero exit.
C7_SecondSignalOrFailureForcesExit ==
  ( /\ exitBy = "shutdown"
    /\ overlapped \/ \E i \in 1..Len(calls) : StopFailed(i) ) =>
    /\ exitCode # 0
    /\ log[Len(log)].level = "error"

\* C7 amended: a shutdown call whose app.stop() failed ends in the error-level
\* line "Error during shutdown" immediately followed by exit code 1, and with
\* a single termination signal a failed drain never ends in exit code 0.
C7_DrainFailureExitsOne ==
  /\ \A i \in 1..Len(calls) :
       calls[i].state = "rejected-exited" =>
         /\ exitCode = 1
         /\ exitBy = "shutdown"
         /\ log[Len(log)].level = "error"
         /\ log[Len(log)].message = "Error during shutdown"
  /\ (Len(calls) = 1 /\ StopFailed(1)) => exitCode # 0

C7_Witness ==
  /\ Len(calls) = 1
  /\ calls[1].state = "rejected-exited"
  /\ exitCode = 1

\* C8: an unhandled rejection is logged at error level and leaves the process
\* running and the server listening; an uncaught exception is logged at error
\* level and ends the process with exit code 1; a process that ends was ended
\* by an uncaught exception or by shutdown.
C8_RejectionKeepsRunning ==
  /\ [](exitBy = "uncaughtException" =>
          /\ exitCode = 1
          /\ log[Len(log)].level = "error"
          /\ log[Len(log)].message = "Uncaught Exception")
  /\ [](~Alive => exitBy \in {"uncaughtException", "shutdown"})
  /\ [][ (Len(log') = Len(log) + 1 /\ log'[Len(log')].message = "Unhandled Rejection") =>
           /\ log'[Len(log')].level = "error"
           /\ exitCode' = Running
           /\ listening' = listening
           /\ request' = request ]_vars

C8_Witness ==
  \E j, k \in 1..Len(log) :
    /\ j < k
    /\ log[j].message = "Unhandled Rejection"
    /\ log[k].message = "Incoming request"
    /\ Done(log[k].req)
    /\ response[log[k].req].status = 200

\* C9 as stated: after a termination signal the process always eventually
\* exits, whether or not the requests in flight complete.
C9_AlwaysExitsAfterSignal == (calls # <<>>) ~> ~Alive

\* C9 amended: after a termination signal the process eventually exits once
\* no request is in flight; there is no drain deadline.
C9_ExitsOnceDrained == (calls # <<>> /\ InFlight = {}) ~> ~Alive

C9_Witness ==
  /\ ~Alive
  /\ exitBy = "shutdown"
  /\ \E j, k \in 1..Len(log) :
       /\ j < k
       /\ log[j].message = "Shutdown signal received"
       /\ log[k].message = "Request completed"

\* C10: under any interleaving of requests, the duration in a request's
\* "Request completed" line is measured from the start time created at that
\* request's entry, the X-Request-ID of its response is the identifier created
\* at its entry and differs from every other request's, and no step changes
\* the config object.
C10_RequestDataIsOwn ==
  /\ [](\A k \in 1..Len(log) :
          log[k].message = "Request completed" =>
            log[k].duration = log[k].timestamp - entered[log[k].req].time)
  /\ [](\A r \in Requests :
          Done(r) =>
            /\ response[r].headers["X-Request-ID"] = entered[r].id
            /\ \A q \in Requests \ {r} :
                 request[q].pc # "idle" => entered[q].id # entered[r].id)
  /\ [][config' = config]_vars

C10_Witness ==
  \E r, q \in Requests, j, k \in 1..Len(log) :
    /\ r # q /\ Done(r) /\ Done(q)
    /\ entered[r].time < entered[q].time
    /\ j < k
    /\ log[j].message = "Incoming request" /\ log[j].req = q
    /\ log[k].message = "Request completed" /\ log[k].req = r
    /\ log[k].duration > 0
====
